---- MODULE Spec2Model ----
(***************************************************************************)
(* drizzle-elysia-query: the guarded execution wrapper database() and the  *)
(* query dispatcher query() of src/src/database.ts.                        *)
(*                                                                         *)
(* JavaScript values are records [k, row, items]: k is the kind of value   *)
(* ("undefined", "null", "object", "array"), row the own properties of an  *)
(* object and items the rows of an array.  A property value is a record    *)
(* [t, n, s] (t = "absent" when the object has no such own property).      *)
(***************************************************************************)
EXTENDS Naturals, Sequences, FiniteSets, TLC

VARIABLES _database, calls

vars == <<_database, calls>>

(* ---------------------------------------------------------------- bounds *)

\* Longest sequence of rows a read returns in the single-call specification.
MaxRows == 2

\* Number of calls in flight in the concurrent specification.
NumCalls == 2

\* Longest sequence of rows a read returns in the concurrent specification.
ConcMaxRows == 1

(* ------------------------------------------------------ JavaScript values *)

Fields == {"id", "name", "extra", "code", "response"}

Absent == [t |-> "absent", n |-> 0, s |-> ""]
Num(n) == [t |-> "number", n |-> n, s |-> ""]
Str(s) == [t |-> "string", n |-> 0, s |-> s]

EmptyRow == [f \in Fields |-> Absent]

Undefined == [k |-> "undefined", row |-> EmptyRow, items |-> <<>>]
Obj(r) == [k |-> "object", row |-> r, items |-> <<>>]
Arr(rs) == [k |-> "array", row |-> EmptyRow, items |-> rs]

\* Object.hasOwn(v, f)
HasOwn(v, f) == v.row[f].t # "absent"

\* Array.isArray(v)
IsArray(v) == v.k = "array"

\* typeof v === "object" (true of objects, arrays and null)
TypeofObject(v) == v.k \in {"object", "array", "null"}

\* elysia's error(code, response): an object whose own properties are code
\* and response.
error(code, response) ==
  Obj([EmptyRow EXCEPT !.code = Num(code), !.response = Str(response)])

(* --------------------------------------------------------------- schemas *)

\* The properties the record schema declares (README: User).
Props == [id |-> "integer", name |-> "string"]
Declared == DOMAIN Props

\* What the encode function of a transform declared on the record schema
\* does: there is none, it raises, it rewrites a declared property to another
\* valid value, or it rewrites one to a value the schema rejects.
Transforms == {"none", "throws", "maps", "breaks"}

Schemas == [type : {"object", "array"}, transform : Transforms]

\* _isTArray(schema)
IsTArray(schema) == schema.type = "array"

\* A string Value.Convert reads as an integer.
IntOf(s) == CHOOSE n \in 0..9 : ToString(n) = s
IsIntString(s) == \E n \in 0..9 : ToString(n) = s

ConvertProp(type, v) ==
  IF type = "integer" /\ v.t = "string" /\ IsIntString(v.s) THEN Num(IntOf(v.s))
  ELSE IF type = "string" /\ v.t = "number" THEN Str(ToString(v.n))
  ELSE v

ConvertRow(r) ==
  [f \in Fields |-> IF f \in Declared THEN ConvertProp(Props[f], r[f]) ELSE r[f]]

ConvertRows(rs) == [i \in 1..Len(rs) |-> ConvertRow(rs[i])]

\* Value.Convert(schema, value): lenient coercion of the declared
\* properties; a value of another kind than the schema's is left as it is.
ValueConvert(schema, value) ==
  IF IsTArray(schema)
  THEN IF IsArray(value) THEN Arr(ConvertRows(value.items)) ELSE value
  ELSE IF value.k = "object" THEN Obj(ConvertRow(value.row)) ELSE value

CheckProp(type, v) ==
  IF type = "integer" THEN v.t = "number" ELSE v.t = "string"

CheckRow(r) == \A f \in Declared : CheckProp(Props[f], r[f])

\* Value.Check(schema, value): undeclared properties are allowed.
ValueCheck(schema, value) ==
  IF IsTArray(schema)
  THEN IsArray(value) /\ \A i \in 1..Len(value.items) : CheckRow(value.items[i])
  ELSE value.k = "object" /\ CheckRow(value.row)

CleanRow(r) == [f \in Fields |-> IF f \in Declared THEN r[f] ELSE Absent]

CleanRows(rs) == [i \in 1..Len(rs) |-> CleanRow(rs[i])]

\* Value.Clean(schema, value): drops the properties the schema does not
\* declare.
ValueClean(schema, value) ==
  IF IsTArray(schema)
  THEN IF IsArray(value) THEN Arr(CleanRows(value.items)) ELSE value
  ELSE IF value.k = "object" THEN Obj(CleanRow(value.row)) ELSE value

DefaultProp(type) == IF type = "integer" THEN Num(0) ELSE Str("")

CastRow(r) ==
  [f \in Fields |->
     IF f \in Declared /\ ~CheckProp(Props[f], r[f]) THEN DefaultProp(Props[f])
     ELSE r[f]]

CastRows(rs) == [i \in 1..Len(rs) |-> CastRow(rs[i])]

\* Value.Cast(schema, value): a value that checks is returned as it is,
\* anything else is upcast with the schema's defaults.
ValueCast(schema, value) ==
  IF ValueCheck(schema, value) THEN value
  ELSE IF IsTArray(schema)
  THEN IF IsArray(value) THEN Arr(CastRows(value.items)) ELSE Arr(<<>>)
  ELSE IF value.k = "object" THEN Obj(CastRow(value.row))
  ELSE Obj([f \in Fields |-> IF f \in Declared THEN DefaultProp(Props[f]) ELSE Absent])

\* The transform's encode function applied to one record.
EncodeRow(transform, r) ==
  IF transform = "maps" THEN [r EXCEPT !.name = Str("z")]
  ELSE IF transform = "breaks" THEN [r EXCEPT !.id = Str("oops")]
  ELSE r

EncodeRows(transform, rs) == [i \in 1..Len(rs) |-> EncodeRow(transform, rs[i])]

TransformEncode(schema, value) ==
  IF IsTArray(schema)
  THEN IF IsArray(value) THEN Arr(EncodeRows(schema.transform, value.items)) ELSE value
  ELSE IF value.k = "object" THEN Obj(EncodeRow(schema.transform, value.row)) ELSE value

\* The encode function is reached for every record of the value.
EncodeReached(schema, value) ==
  IF IsTArray(schema) THEN IsArray(value) /\ Len(value.items) > 0
  ELSE value.k = "object"

\* Value.Encode(schema, value): runs the transform's encode function, then
\* checks the result and raises when it does not check.  ok = FALSE is the
\* raise.
ValueEncode(schema, value) ==
  IF schema.transform = "throws" /\ EncodeReached(schema, value)
  THEN [ok |-> FALSE, value |-> value]
  ELSE LET encoded == TransformEncode(schema, value)
       IN  [ok |-> ValueCheck(schema, encoded), value |-> encoded]

(* -------------------------------------------------------------- requests *)

\* getTableName(table) of the tables the requests name.
Tables == {"users", "categories", "entries"}

\* What databaseInitialize() can bind: an accessor that returns the handle,
\* or one that raises when it is called.
Accessors == {"ok", "throws"}

\* A request to query().  complex says whether a custom function is
\* supplied; query, id and order are "undefined" or the value supplied
\* (idColumn comes with id).
QueryRequests ==
  [api : {"query"}, table : Tables, schema : Schemas, complex : BOOLEAN,
   query : {"undefined", "filter"}, id : {"undefined", "1"},
   order : {"undefined", "order"}, opaque : BOOLEAN]

\* A direct call of database() with a caller's operation ("insert user" in
\* the README); the fields of query() are unused.
DatabaseRequests ==
  [api : {"database"}, table : {"users"},
   schema : {[type |-> "object", transform |-> "none"]}, complex : {TRUE},
   query : {"undefined"}, id : {"undefined"}, order : {"undefined"},
   opaque : {FALSE}]

Requests == QueryRequests \cup DatabaseRequests

\* The requests of the concurrent specification.
ConcRequests ==
  {r \in Requests :
     /\ r.table = "users"
     /\ r.schema.transform = "none"
     /\ r.query = "undefined"
     /\ r.order = "undefined"
     /\ (r.api = "query" => ~r.complex /\ r.id = "1")}

(* ------------------------------------------------------------------ rows *)

RowOk == [EmptyRow EXCEPT !.id = Num(1), !.name = Str("a")]
RowCoerce == [EmptyRow EXCEPT !.id = Str("2"), !.name = Str("b"), !.extra = Num(7)]
RowBad == [EmptyRow EXCEPT !.id = Str("x"), !.name = Str("a")]
RowErrLike ==
  [EmptyRow EXCEPT !.id = Num(1), !.name = Str("a"), !.code = Num(1),
                   !.response = Str("r")]

Rows == {RowOk, RowCoerce, RowBad, RowErrLike}
ConcRows == {RowOk}

SeqsUpTo(S, n) == UNION {[1..m -> S] : m \in 0..n}

\* What the operation of a request can resolve to.  A built-in read
\* (drizzle.select()) resolves to a sequence of rows; a custom function
\* resolves to Data | undefined (line 102), Data being a sequence under an
\* array schema and a record otherwise; the operation of a direct database()
\* call resolves to nothing or to a record.
Results(req, rows, maxlen) ==
  IF req.api = "database" THEN {Undefined, Obj(RowOk)}
  ELSE IF ~req.complex THEN {Arr(rs) : rs \in SeqsUpTo(rows, maxlen)}
  ELSE IF IsTArray(req.schema)
  THEN {Undefined} \cup {Arr(rs) : rs \in SeqsUpTo(rows, maxlen)}
  ELSE {Undefined} \cup {Obj(r) : r \in rows}

(* ------------------------------------------------------------ the program *)

\* Faulty variant of _formatItem: the trailing "ie" is not rewritten.
FormatItemNoIe(name, multiple) ==
  IF multiple THEN name ELSE SubSeq(name, 1, Len(name) - 1)

\* _formatItem(name, multiple)
FormatItem(name, multiple) ==
  IF multiple THEN name
  ELSE LET shortened == SubSeq(name, 1, Len(name) - 1)
       IN  IF Len(shortened) >= 2
              /\ SubSeq(shortened, Len(shortened) - 1, Len(shortened)) = "ie"
           THEN SubSeq(shortened, 1, Len(shortened) - 2) \o "y"
           ELSE shortened

\* title of query()
Title(req) == FormatItem(req.table, IsTArray(req.schema))

\* The label the call hands to database().
Operation(req) ==
  IF req.api = "database" THEN "insert user" ELSE "query " \o Title(req)

Read(op, where, orderBy) == [op |-> op, where |-> where, orderBy |-> orderBy]

\* Faulty variant of the dispatch: the identifier is looked at before the
\* custom function.
DispatchIdFirst(req) ==
  IF req.id # "undefined"
  THEN Read("select",
            IF req.query # "undefined" THEN "and(eq(idColumn,id),query)"
            ELSE "eq(idColumn,id)",
            IF req.order # "undefined" THEN "order" ELSE "desc(idColumn)")
  ELSE IF req.complex # FALSE THEN Read("complex", "none", "none")
  ELSE Read("select",
            IF req.query # "undefined" THEN "query" ELSE "none",
            IF req.order # "undefined" THEN "order" ELSE "none")

\* The operation query() hands to database(): the read it issues.
Dispatch(req) ==
  IF req.complex # FALSE THEN Read("complex", "none", "none")
  ELSE IF req.query # "undefined"
  THEN IF req.id # "undefined"
       THEN Read("select", "and(eq(idColumn,id),query)",
                 IF req.order # "undefined" THEN "order" ELSE "desc(idColumn)")
       ELSE IF req.order # "undefined"
       THEN Read("select", "query", "order")
       ELSE Read("select", "query", "none")
  ELSE IF req.id # "undefined"
       THEN Read("select", "eq(idColumn,id)",
                 IF req.order # "undefined" THEN "order" ELSE "desc(idColumn)")
       ELSE IF req.order # "undefined"
       THEN Read("select", "none", "order")
       ELSE Read("select", "none", "none")

\* The operation a call invokes.
OperationOf(req) ==
  IF req.api = "database" THEN Read("custom", "none", "none") ELSE Dispatch(req)

\* Faulty variant of database(): the handle is not tested before use.
DatabaseEnterUnguarded(handle, operation) ==
  IF handle = "throws"
  THEN [settled |-> TRUE, invoked |-> 0, outcome |-> "failed",
        values |-> error(500, "couldn't " \o operation)]
  ELSE [settled |-> FALSE, invoked |-> 1, outcome |-> "pending",
        values |-> Undefined]

\* database() up to its await: with no handle bound it returns 503 at once;
\* otherwise it calls the accessor inside the try (an accessor that raises is
\* caught) and invokes the operation.
DatabaseEnter(handle, operation) ==
  IF handle = "undefined"
  THEN [settled |-> TRUE, invoked |-> 0, outcome |-> "unavailable",
        values |-> error(503, "database is not ready")]
  ELSE IF handle = "throws"
  THEN [settled |-> TRUE, invoked |-> 0, outcome |-> "failed",
        values |-> error(500, "couldn't " \o operation)]
  ELSE [settled |-> FALSE, invoked |-> 1, outcome |-> "pending",
        values |-> Undefined]

\* The catch of database(): the operation rejected.
DatabaseCatch(operation) == error(500, "couldn't " \o operation)

\* Lines 218-224: the test query() takes for "database() returned an error".
LooksLikeError(values) ==
  /\ TypeofObject(values)
  /\ ~IsArray(values)
  /\ values.k # "null"
  /\ HasOwn(values, "code")
  /\ HasOwn(values, "response")

\* Faulty variant of the not-found test: only an empty sequence counts.
NotFoundEmptyOnly(multiple, values) ==
  /\ ~multiple
  /\ \/ IsArray(values) /\ Len(values.items) = 0
     \/ values.k = "undefined"

\* Faulty variant of the not-found test: the mode is not looked at.
NotFoundAnyMode(multiple, values) ==
  \/ IsArray(values) /\ Len(values.items) # 1
  \/ values.k = "undefined"

\* Lines 227-230: the not-found test.
NotFound(multiple, values) ==
  /\ ~multiple
  /\ \/ IsArray(values) /\ Len(values.items) # 1
     \/ values.k = "undefined"

\* Lines 234-236: what is converted.
Selected(multiple, values) ==
  IF multiple THEN values
  ELSE IF IsArray(values) THEN Obj(values.items[1]) ELSE values

\* Faulty variant of the encoding pass: a raise loses the value.
AfterEncodeFatal(value, encoded) ==
  IF encoded.ok THEN encoded.value ELSE Undefined

\* Lines 238-246: the encoded value, or the value before it when Value.Encode
\* raised.
AfterEncode(value, encoded) == IF encoded.ok THEN encoded.value ELSE value

\* What the failure `stage` gives the caller.
Failure(opaque, code, response) ==
  IF opaque THEN Undefined ELSE error(code, response)

\* query() after its await (lines 218-261).  stage names the return
\* statement taken.
QueryPost(req, values) ==
  LET multiple == IsTArray(req.schema)
      title == FormatItem(req.table, multiple)
  IN  IF LooksLikeError(values)
      THEN [ret |-> values, stage |-> "shortcircuit"]
      ELSE IF NotFound(multiple, values)
      THEN [ret |-> Failure(req.opaque, 404, title \o " not found"),
            stage |-> "notfound"]
      ELSE LET converted == ValueConvert(req.schema, Selected(multiple, values))
               value == AfterEncode(converted, ValueEncode(req.schema, converted))
           IN  IF ~ValueCheck(req.schema, value)
               THEN [ret |-> Failure(req.opaque, 500, "couldn't retrieve " \o title),
                     stage |-> "retrievefailed"]
               ELSE [ret |-> ValueCast(req.schema, ValueClean(req.schema, value)),
                     stage |-> "cleaned"]

(* ------------------------------------------------------------------ state *)

Calls == 1..NumCalls

NoRequest == CHOOSE r \in DatabaseRequests : TRUE

NoResponse == [rejected |-> FALSE, value |-> Undefined]

\* A call that has not started.  seen is the handle the call read, invoked
\* the number of times its operation was invoked, reads the operations
\* invoked, resp what the operation answered, outcome what database() did,
\* values what database() returned.
Idle ==
  [pc |-> "idle", req |-> NoRequest, seen |-> "undefined", invoked |-> 0,
   reads |-> <<>>, resp |-> NoResponse, outcome |-> "pending",
   values |-> Undefined, ret |-> Undefined, stage |-> "none"]

Init ==
  /\ _database = "undefined"
  /\ calls = [c \in Calls |-> Idle]

\* Faulty variant of the awaited result: one buffer shared by the calls.
ValuesOfShared(c) == calls[1].values

\* The awaited result the continuation of call c resumes with (the const
\* values of line 172, local to the call).
ValuesOf(c) == calls[c].values

\* databaseInitialize(drizzle)
DatabaseInitialize(drizzle) ==
  /\ _database' = drizzle
  /\ UNCHANGED calls

\* A call starts and runs up to the await of database().
Enter(c, req) ==
  LET entered == DatabaseEnter(_database, Operation(req))
  IN  /\ calls[c].pc = "idle"
      /\ calls' = [calls EXCEPT ![c] =
           [pc |-> IF entered.settled THEN "resumed" ELSE "awaiting",
            req |-> req, seen |-> _database, invoked |-> entered.invoked,
            reads |-> IF entered.invoked = 1 THEN <<OperationOf(req)>> ELSE <<>>,
            resp |-> NoResponse, outcome |-> entered.outcome,
            values |-> entered.values,
            ret |-> Undefined, stage |-> "none"]]
      /\ UNCHANGED _database

\* query(request), lines 169-216.
QueryCall(c, req) == req.api = "query" /\ Enter(c, req)

\* database(operation, label), lines 21-27.
DatabaseCall(c, req) == req.api = "database" /\ Enter(c, req)

\* The operation of call c resolves to v (line 27).
OperationResolve(c, v) ==
  /\ calls[c].pc = "awaiting"
  /\ calls' = [calls EXCEPT ![c].pc = "resumed", ![c].outcome = "success",
                 ![c].resp = [rejected |-> FALSE, value |-> v],
                 ![c].values = v]
  /\ UNCHANGED _database

\* The operation of call c rejects (lines 28-31).
OperationReject(c) ==
  /\ calls[c].pc = "awaiting"
  /\ calls' = [calls EXCEPT ![c].pc = "resumed", ![c].outcome = "failed",
                 ![c].resp = [rejected |-> TRUE, value |-> Undefined],
                 ![c].values = DatabaseCatch(Operation(calls[c].req))]
  /\ UNCHANGED _database

\* query() resumes after its await and returns (lines 218-261).
QueryReturn(c) ==
  /\ calls[c].pc = "resumed"
  /\ calls[c].req.api = "query"
  /\ LET post == QueryPost(calls[c].req, ValuesOf(c))
     IN  calls' = [calls EXCEPT ![c].pc = "returned", ![c].ret = post.ret,
                                ![c].stage = post.stage]
  /\ UNCHANGED _database

\* database() returns to its caller.
DatabaseReturn(c) ==
  /\ calls[c].pc = "resumed"
  /\ calls[c].req.api = "database"
  /\ calls' = [calls EXCEPT ![c].pc = "returned", ![c].ret = ValuesOf(c)]
  /\ UNCHANGED _database

\* One call at a time, over every request and every result.
Next ==
  \/ \E d \in Accessors : DatabaseInitialize(d)
  \/ \E req \in Requests : QueryCall(1, req)
  \/ \E req \in Requests : DatabaseCall(1, req)
  \/ \E v \in Results(calls[1].req, Rows, MaxRows) : OperationResolve(1, v)
  \/ OperationReject(1)
  \/ QueryReturn(1)
  \/ DatabaseReturn(1)

Spec == Init /\ [][Next]_vars

\* NumCalls calls in flight, interleaved at their suspension points.
NextConc ==
  \/ \E d \in Accessors : DatabaseInitialize(d)
  \/ \E c \in Calls, req \in ConcRequests : QueryCall(c, req)
  \/ \E c \in Calls, req \in ConcRequests : DatabaseCall(c, req)
  \/ \E c \in Calls : \E v \in Results(calls[c].req, ConcRows, ConcMaxRows) :
       OperationResolve(c, v)
  \/ \E c \in Calls : OperationReject(c)
  \/ \E c \in Calls : QueryReturn(c)
  \/ \E c \in Calls : DatabaseReturn(c)

SpecConc == Init /\ [][NextConc]_vars

(* ------------------------------------------------------------- properties *)

Returned(c) == calls[c].pc = "returned"
IsQuery(c) == calls[c].req.api = "query"
Multiple(c) == calls[c].req.schema.type = "array"

\* The display names the specification gives.
SingularOf == [users |-> "user", categories |-> "category", entries |-> "entry"]
DisplayName(req) ==
  IF req.schema.type = "array" THEN req.table ELSE SingularOf[req.table]

Unavailable == error(503, "database is not ready")
QueryFailed(req) == error(500, "couldn't query " \o DisplayName(req))
RetrieveFailed(req) == error(500, "couldn't retrieve " \o DisplayName(req))
NotFoundError(req) == error(404, DisplayName(req) \o " not found")

\* The properties a schema of records declares, written out.
OnlyDeclared(r) ==
  [f \in Fields |-> IF f \in {"id", "name"} THEN r[f] ELSE Absent]
OnlyDeclaredRows(rs) == [i \in 1..Len(rs) |-> OnlyDeclared(rs[i])]

\* C1: a non-opaque call and an opaque call of the same request, with the
\* same handle and the same answer of the database, return either (value,
\* the same value) or (typed error, undefined); an opaque call never returns
\* a typed error object.
C1_OpaqueProjection ==
  \A c1 \in Calls, c2 \in Calls :
    ( /\ Returned(c1) /\ Returned(c2)
      /\ IsQuery(c1) /\ IsQuery(c2)
      /\ ~calls[c1].req.opaque /\ calls[c2].req.opaque
      /\ calls[c2].req = [calls[c1].req EXCEPT !.opaque = TRUE]
      /\ calls[c1].seen = calls[c2].seen
      /\ calls[c1].resp = calls[c2].resp )
    => \/ calls[c1].stage = "cleaned" /\ calls[c2].ret = calls[c1].ret
       \/ /\ calls[c1].stage # "cleaned"
          /\ calls[c1].ret \in {Unavailable, QueryFailed(calls[c1].req),
                                RetrieveFailed(calls[c1].req),
                                NotFoundError(calls[c1].req)}
          /\ calls[c2].ret = Undefined

C4_NotFoundCase(c) ==
  (calls[c].values.k = "undefined"
     \/ (IsArray(calls[c].values) /\ Len(calls[c].values.items) # 1))
  => /\ calls[c].stage = "notfound"
     /\ calls[c].ret = IF calls[c].req.opaque THEN Undefined
                       ELSE NotFoundError(calls[c].req)

C4_Singular(c) ==
  Returned(c) /\ IsQuery(c) /\ ~Multiple(c) /\ calls[c].outcome = "success"

OneRow(c) == IsArray(calls[c].values) /\ Len(calls[c].values.items) = 1

\* C4 as claimed: in singular mode a read that yields exactly one row gives
\* a validated single value; an absent result or a sequence of zero or more
\* than one rows gives not-found.
C4_OneRowIsValue ==
  \A c \in Calls :
    C4_Singular(c)
    => /\ OneRow(c) => /\ calls[c].stage = "cleaned"
                       /\ ValueCheck(calls[c].req.schema, calls[c].ret)
       /\ C4_NotFoundCase(c)

\* C4 as amended: in singular mode a read that yields a sequence of exactly
\* one row is never not-found: it gives the validated single value when the
\* row passes the validation gate and retrieve-failed (undefined in opaque
\* mode) when it does not; an absent result or a sequence of zero or more
\* than one rows gives not-found.
C4_OneRowIsValidated ==
  \A c \in Calls :
    C4_Singular(c)
    => /\ OneRow(c) =>
            \/ /\ calls[c].stage = "cleaned"
               /\ calls[c].ret.k = "object"
               /\ ValueCheck(calls[c].req.schema, calls[c].ret)
            \/ /\ calls[c].stage = "retrievefailed"
               /\ calls[c].ret = IF calls[c].req.opaque THEN Undefined
                                 ELSE RetrieveFailed(calls[c].req)
       /\ C4_NotFoundCase(c)

C4_Witness ==
  \E c \in Calls :
    /\ C4_Singular(c)
    /\ calls[c].values = Arr(<<RowCoerce>>)
    /\ calls[c].req.schema.transform = "none"
    /\ calls[c].ret = Obj([EmptyRow EXCEPT !.id = Num(2), !.name = Str("b")])

ExpectedWhere(req) ==
  CASE req.query # "undefined" /\ req.id # "undefined" -> "and(eq(idColumn,id),query)"
    [] req.query # "undefined" /\ req.id = "undefined" -> "query"
    [] req.query = "undefined" /\ req.id # "undefined" -> "eq(idColumn,id)"
    [] OTHER -> "none"

ExpectedOrder(req) ==
  IF req.order # "undefined" THEN "order"
  ELSE IF req.id # "undefined" THEN "desc(idColumn)"
  ELSE "none"

ExpectedRead(req) ==
  IF req.complex
  THEN [op |-> "complex", where |-> "none", orderBy |-> "none"]
  ELSE [op |-> "select", where |-> ExpectedWhere(req), orderBy |-> ExpectedOrder(req)]

\* C6: the read a call of query() issues is the one of the first matching
\* branch (custom function; filter and identifier; filter; identifier;
\* neither), and it is the only one: a call that reaches its operation issues
\* exactly that read, once, and a call that does not issues none.
C6_OneReadByPrecedence ==
  \A c \in Calls :
    (IsQuery(c) /\ calls[c].pc # "idle")
    => /\ Len(calls[c].reads) = calls[c].invoked
       /\ calls[c].seen = "ok" => calls[c].reads = <<ExpectedRead(calls[c].req)>>
       /\ calls[c].seen # "ok" => calls[c].reads = <<>>

C6_Witness ==
  \E c \in Calls :
    /\ Returned(c) /\ IsQuery(c)
    /\ calls[c].req.complex
    /\ calls[c].req.id = "1"
    /\ calls[c].req.query = "filter"
    /\ calls[c].reads = <<[op |-> "complex", where |-> "none", orderBy |-> "none"]>>

\* The raw value query() selects: the sequence in plural mode, the single
\* row in singular mode.
Raw(c) ==
  IF Multiple(c) THEN calls[c].values
  ELSE IF OneRow(c) THEN Obj(calls[c].values.items[1])
  ELSE calls[c].values

\* C7: when the read completes normally and the selected raw value already
\* satisfies the schema, query() returns it with its declared fields
\* unchanged and its undeclared fields removed.
C7_RoundTrip ==
  \A c \in Calls :
    ( /\ Returned(c) /\ IsQuery(c)
      /\ calls[c].outcome = "success"
      /\ ValueCheck(calls[c].req.schema, Raw(c)) )
    => calls[c].ret =
         IF Multiple(c) THEN Arr(OnlyDeclaredRows(Raw(c).items))
         ELSE Obj(OnlyDeclared(Raw(c).row))

\* What a call returns when it runs alone with the handle it read and the
\* answer its operation gave.
Alone(req, handle, resp) ==
  LET entered == DatabaseEnter(handle, Operation(req))
      values == IF entered.settled THEN entered.values
                ELSE IF resp.rejected THEN DatabaseCatch(Operation(req))
                ELSE resp.value
  IN  IF req.api = "database" THEN values ELSE QueryPost(req, values).ret

C8_Independent ==
  \A c \in Calls :
    (calls[c].pc # "idle" /\ calls[c].seen # "undefined")
    => /\ calls[c].invoked <= 1
       /\ calls[c].seen = "ok" => calls[c].invoked = 1
       /\ Returned(c) =>
            calls[c].ret = Alone(calls[c].req, calls[c].seen, calls[c].resp)

C8_NoSharedWrite ==
  (\E c \in Calls : calls'[c] # calls[c])
  => /\ _database' = _database
     /\ \A c \in Calls, d \in Calls :
          (c # d /\ calls'[c] # calls[c]) => calls'[d] = calls[d]

\* C8: calls in flight together are independent: a call started with the
\* handle bound returns what it returns when run alone with the same answer
\* of the database, invokes its operation once (never twice), and no step of
\* a call writes the handle or the state of another call.
C8_ConcurrentCallsIndependent == []C8_Independent /\ [][C8_NoSharedWrite]_vars

C8_Witness ==
  \E c \in Calls, d \in Calls :
    /\ c # d
    /\ calls[c].seen = "ok" /\ calls[d].seen = "ok"
    /\ Returned(c) /\ calls[c].stage = "cleaned"
    /\ calls[d].pc = "resumed"
    /\ calls[d].values # calls[c].values

\* The value the encoding pass is given.
Converted(c) ==
  ValueConvert(calls[c].req.schema, Raw(c))

\* C9: when the encoding pass raises, the outcome is decided by the
\* validation gate on the value before encoding: that value cleaned when it
\* checks, retrieve-failed (undefined in opaque mode) when it does not.
C9_EncodeFailureNotFatal ==
  \A c \in Calls :
    ( /\ Returned(c) /\ IsQuery(c)
      /\ calls[c].stage \in {"cleaned", "retrievefailed"}
      /\ ~ValueEncode(calls[c].req.schema, Converted(c)).ok )
    => IF ValueCheck(calls[c].req.schema, Converted(c))
       THEN /\ calls[c].stage = "cleaned"
            /\ calls[c].ret =
                 IF Multiple(c) THEN Arr(OnlyDeclaredRows(Converted(c).items))
                 ELSE Obj(OnlyDeclared(Converted(c).row))
       ELSE /\ calls[c].stage = "retrievefailed"
            /\ calls[c].ret = IF calls[c].req.opaque THEN Undefined
                              ELSE RetrieveFailed(calls[c].req)

C9_Witness ==
  \E c \in Calls :
    /\ Returned(c) /\ IsQuery(c)
    /\ calls[c].req.schema.transform = "throws"
    /\ calls[c].values = Arr(<<RowCoerce>>)
    /\ calls[c].stage = "cleaned"
    /\ calls[c].ret = IF Multiple(c)
                      THEN Arr(<<[EmptyRow EXCEPT !.id = Num(2), !.name = Str("b")]>>)
                      ELSE Obj([EmptyRow EXCEPT !.id = Num(2), !.name = Str("b")])

\* C10: a result the operation returned normally is never handed back
\* without the not-found classification, conversion, validation and
\* cleaning: the short-circuit is taken only for an error of database().
C10_SuccessIsValidated ==
  \A c \in Calls :
    (Returned(c) /\ IsQuery(c) /\ calls[c].outcome = "success")
    => calls[c].stage # "shortcircuit"

====
